---- MODULE Spec2Model ----
(***************************************************************************)
(* Model of variant::QuantifyRegions (QuantifyRegions.cpp): the loader of  *)
(* named region files, the per-record annotator and the size queries.      *)
(*                                                                         *)
(* A std::string is a sequence of one-character strings, so that the       *)
(* token and line parsing of load() is computed as the code computes it.   *)
(***************************************************************************)
EXTENDS Integers, Sequences, FiniteSets, TLC

\* ------------------------------------------------------------------ bounds

\* total number of spec tokens (files) one engine is given over all load calls
MaxFiles == 2
\* record starts of the dense scan are 0..MaxPos
MaxPos == 3
\* a record spans [start, start + len] with len in 0..MaxLen
MaxLen == 1

\* ----------------------------------------------------------------- strings

TAB == "\t"

\* the characters used, in ASCII order (std::string compares by char value)
Alphabet ==
    << "\t", ".", "/", "0", "1", "2", "3", "4", "5", "6", "7", "8", "9",
       ":", "=", "A", "B", "C", "D", "E", "F", "M", "N", "O", "X", "Y", "Z",
       "_", "b", "c", "e", "f", "g", "h", "k", "m", "n", "o", "r", "s", "x",
       "z" >>

Ord(c) == CHOOSE i \in 1..Len(Alphabet) : Alphabet[i] = c

SetMin(S) == CHOOSE x \in S : \A y \in S : x <= y

\* std::string operator< : lexicographic by character value
StrLess(a, b) ==
    \E i \in 1..(Len(a) + 1) :
        /\ \A j \in 1..(i - 1) : j <= Len(b) /\ a[j] = b[j]
        /\ \/ i = Len(a) + 1 /\ Len(b) >= i
           \/ i <= Len(a) /\ i <= Len(b) /\ Ord(a[i]) < Ord(b[i])

\* a map with one key set (std::unordered_map operator[] / emplace)
Put(f, k, v) == [x \in (DOMAIN f) \cup {k} |-> IF x = k THEN v ELSE f[x]]

EmptyMap == [x \in {} |-> 0]

\* stringutil::split(str, result, seps): the fields between separators,
\* empty fields dropped (load() relies on it: ":" splits into no field)
RECURSIVE split(_, _)
split(str, sep) ==
    IF Len(str) = 0 THEN << >>
    ELSE LET hits == {i \in 1..Len(str) : str[i] = sep}
         IN  IF hits = {} THEN << str >>
             ELSE LET pos == SetMin(hits)
                      head == IF pos > 1 THEN << SubSeq(str, 1, pos - 1) >>
                              ELSE << >>
                  IN  head \o split(SubSeq(str, pos + 1, Len(str)), sep)

\* boost::filesystem::path(filename).stem(): the last path component
\* without its last extension
stem(filename) ==
    LET slashes == {i \in 1..Len(filename) : filename[i] = "/"}
        from == IF slashes = {} THEN 1
                ELSE (CHOOSE i \in slashes : \A j \in slashes : j <= i) + 1
        base == SubSeq(filename, from, Len(filename))
        dots == {i \in 1..Len(base) : base[i] = "."}
        last == CHOOSE i \in dots : \A j \in dots : j <= i
    IN  IF dots = {} \/ base = << "." >> \/ base = << ".", "." >> THEN base
        ELSE SubSeq(base, 1, last - 1)

Digits == {"0", "1", "2", "3", "4", "5", "6", "7", "8", "9"}

DigitVal(c) == Ord(c) - Ord("0")

RECURSIVE DecVal(_)
DecVal(s) ==
    IF Len(s) = 0 THEN 0
    ELSE 10 * DecVal(SubSeq(s, 1, Len(s) - 1)) + DigitVal(s[Len(s)])

\* std::stoll(s): converts the longest prefix of digits and ignores what
\* follows it; std::invalid_argument when s does not start with a digit.
\* (No field of the modelled files has white space, a sign, or a value out
\* of the range of long long.)
stoll(s) ==
    LET nondigit == {i \in 1..Len(s) : s[i] \notin Digits}
        n == IF nondigit = {} THEN Len(s) ELSE SetMin(nondigit) - 1
    IN  IF n = 0 THEN [ok |-> FALSE, val |-> 0]
        ELSE [ok |-> TRUE, val |-> DecVal(SubSeq(s, 1, n))]

\* ---------------------------------------------------------- IntervalBuffer

\* intervals::IntervalBuffer, by its contract: labelled closed intervals
addInterval(buf, start, stop, lane) ==
    buf \cup {[start |-> start, stop |-> stop, lane |-> lane]}

hasOverlap(buf, start, end, lane) ==
    \E iv \in buf : iv.lane = lane /\ iv.start <= end /\ iv.stop >= start

\* retires the intervals wholly left of pos
advance(buf, pos) == {iv \in buf : ~(iv.stop < pos)}

\* ------------------------------------------------------------ region files

\* a line of a region file from its fields
RECURSIVE JoinTab(_)
JoinTab(fields) ==
    IF Len(fields) = 0 THEN << >>
    ELSE IF Len(fields) = 1 THEN fields[1]
    ELSE fields[1] \o << TAB >> \o JoinTab(Tail(fields))

chr1 == << "c", "h", "r", "1" >>
chr2 == << "c", "h", "r", "2" >>
\* a chromosome no region file names
chrU == << "c", "h", "r", "M" >>
foo == << "f", "o", "o" >>

\* the files that can be opened, each the lines hts_getline returns for it
Files ==
    [ fn \in { << "f" >>, << "g" >>, << "C", "O", "N", "F", ".", "b" >>,
               << "c" >>, << "s" >>, << "h" >>, << "k" >>, << "x" >>,
               << "n" >>, << "e" >>, << "z" >> } |->
      CASE fn = << "f" >> ->
             << JoinTab(<< chr1, << "0" >>, << "1", "0" >>, foo >>) >>
        [] fn = << "g" >> ->
             << JoinTab(<< chr1, << "0" >>, << "1", "0" >>, foo >>),
                JoinTab(<< chr2, << "1" >>, << "3" >> >>) >>
        [] fn = << "C", "O", "N", "F", ".", "b" >> ->
             << JoinTab(<< chr1, << "0" >>, << "1", "0" >>, foo >>) >>
        [] fn = << "c" >> ->
             << JoinTab(<< chr1, << "1", "0" >>, << "2", "0" >> >>),
                JoinTab(<< chr1, << "3", "0" >>, << "4", "0" >> >>) >>
        [] fn = << "s" >> ->
             << JoinTab(<< chr1, << "1" >>, << "3" >>, foo >>),
                JoinTab(<< chr1, << "3" >>, << "5" >> >>),
                JoinTab(<< chr2, << "0" >>, << "2" >> >>) >>
        [] fn = << "h" >> ->
             << JoinTab(<< chr1, << "5" >> >>),
                JoinTab(<< chr1, << "x" >>, << "5" >> >>),
                JoinTab(<< chr1, << "4" >>, << "4" >> >>),
                JoinTab(<< chr1, << "6" >>, << "3" >> >>),
                JoinTab(<< chr1, << "2" >>, << "4" >> >>) >>
        [] fn = << "k" >> ->
             << JoinTab(<< chr1, << "0" >>, << "2" >> >>),
                << >>,
                JoinTab(<< chr1, << "4" >>, << "6" >> >>) >>
        [] fn = << "x" >> ->
             << JoinTab(<< chr1, << "1", "x" >>, << "5" >> >>),
                JoinTab(<< chr1, << "6" >>, << "8" >> >>) >>
        [] fn = << "n" >> ->
             << JoinTab(<< << "1" >>, << "0" >>, << "5" >> >>),
                JoinTab(<< chr1, << "7" >>, << "9" >> >>),
                JoinTab(<< << "X" >>, << "0" >>, << "2" >> >>),
                JoinTab(<< << "0" >>, << "1" >>, << "3" >> >>) >>
        [] fn = << "e" >> -> << >>
        [] fn = << "z" >> ->
             << JoinTab(<< chr1, << "5" >> >>),
                JoinTab(<< chr1, << "4" >>, << "4" >> >>) >> ]

\* ------------------------------------------------------------------- load

CONF == << "C", "O", "N", "F" >>

\* the label, file name and fixed-label flag of a spec token
ParseToken(f) ==
    LET v == split(f, ":")
    IN  IF Len(v) = 0 THEN [ok |-> FALSE, label |-> << >>,
                            filename |-> << >>, fixed_label |-> FALSE]
        ELSE IF Len(v) > 1 THEN
            LET marked == v[1][1] = "="
                label == IF marked THEN Tail(v[1]) ELSE v[1]
            IN  [ok |-> TRUE, label |-> label, filename |-> v[2],
                 fixed_label |-> marked \/ label = CONF]
        ELSE [ok |-> TRUE, label |-> stem(v[1]), filename |-> v[1],
              fixed_label |-> FALSE]

\* (mutant: names that start with 0 get the prefix too)
FixChr_AnyDigit(c, fixchr) ==
    IF fixchr /\ Len(c) > 0
       /\ c[1] \in {"0", "1", "2", "3", "4", "5", "6", "7", "8", "9",
                     "X", "Y", "M"}
    THEN << "c", "h", "r" >> \o c
    ELSE c

\* chromosome name of a line, with the "chr" prefix added when fixchr asks
FixChr(c, fixchr) ==
    IF fixchr /\ Len(c) > 0
       /\ c[1] \in {"1", "2", "3", "4", "5", "6", "7", "8", "9", "X", "Y", "M"}
    THEN << "c", "h", "r" >> \o c
    ELSE c

\* stored stop of a line: the exclusive end made inclusive
StopOf(end) == end - 1

\* (mutant: the size of the half-open interval)
IntervalSize_HalfOpen(start, stop) == stop - start

\* the size credited for one stored interval
IntervalSize(start, stop) == stop - start + 1

\* whether a line gets a compound label
SplitsLabel(fixed_label, v) == ~fixed_label /\ Len(v) > 3

\* (mutant: the comparison inverted)
AlsoBase_Inverted(this_label_id, label_id) == this_label_id = label_id

\* whether the interval is stored and credited under the file's label too
AlsoBase(this_label_id, label_id) == this_label_id # label_id

\* (mutant: the size is assigned, not added)
CreditSize_Overwrite(sizes, id, n) == Put(sizes, id, n)

\* region_sizes after crediting n to id
CreditSize(sizes, id, n) ==
    IF id \in DOMAIN sizes THEN [sizes EXCEPT ![id] = @ + n]
    ELSE Put(sizes, id, n)

\* one addInterval call: the index of the chromosome and the log of calls
Store(st, chrom, start, stop, id) ==
    [st EXCEPT !.ib = [@ EXCEPT ![chrom] = addInterval(@, start, stop, id)],
               !.region_sizes = CreditSize(@, id, IntervalSize(start, stop)),
               !.added = Append(@, [chr |-> chrom, start |-> start,
                                    stop |-> stop, lane |-> id])]

\* the body of the while loop for one line
LoadLine(st, line, label, label_id, fixed_label, fixchr) ==
    LET v == split(line, TAB)
    IN  IF Len(v) >= 3 THEN
            LET chrom == FixChr(v[1], fixchr)
                st1 == IF chrom \in DOMAIN st.ib THEN st
                       ELSE [st EXCEPT !.ib = Put(@, chrom, {})]
                p1 == stoll(v[2])
                p2 == stoll(v[3])
                start == p1.val
                stop == StopOf(p2.val)
            IN  IF ~p1.ok \/ ~p2.ok THEN st1
                ELSE IF start > stop THEN st1
                ELSE
                LET splits == SplitsLabel(fixed_label, v)
                    entry_label == label \o << "_" >> \o v[4]
                    unseen == splits /\ entry_label \notin DOMAIN st1.lm
                    this_label_id ==
                        IF ~splits THEN label_id
                        ELSE IF unseen THEN Len(st1.names)
                        ELSE st1.lm[entry_label]
                    st2 == IF unseen
                           THEN [st1 EXCEPT
                                   !.names = Append(@, entry_label),
                                   !.lm = Put(@, entry_label, this_label_id)]
                           ELSE st1
                    st3 == Store(st2, chrom, start, stop, this_label_id)
                    st4 == IF AlsoBase(this_label_id, label_id)
                           THEN Store(st3, chrom, start, stop, label_id)
                           ELSE st3
                IN  [st4 EXCEPT !.rows = Append(@,
                        [f |-> st.f, label |-> label,
                         fixed_label |-> fixed_label, v |-> v,
                         chr |-> chrom, start |-> start, stop |-> stop,
                         label_id |-> label_id,
                         this_label_id |-> this_label_id])]
        ELSE st

\* while (hts_getline(bedfile, 2, &l) > 0): hts_getline returns the length
\* of the line read, so the loop ends at the end of the file and at the
\* first empty line
RECURSIVE ReadLines(_, _, _, _, _, _, _)
ReadLines(st, lines, i, label, label_id, fixed_label, fixchr) ==
    IF i > Len(lines) \/ ~(Len(lines[i]) > 0) THEN st
    ELSE ReadLines(LoadLine(st, lines[i], label, label_id, fixed_label, fixchr),
                   lines, i + 1, label, label_id, fixed_label, fixchr)

\* the body of the for loop for one spec token.  A file that cannot be
\* opened leaves bedfile NULL, which is not tested: the label is registered
\* and hts_getline then reads through the null pointer, which ends the
\* process.
LoadFile(st, f, fixchr) ==
    LET t == ParseToken(f)
    IN  IF ~t.ok THEN [st EXCEPT !.outcome = "fatal"]
        ELSE
        LET seen == t.label \in DOMAIN st.lm
            label_id == IF seen THEN st.lm[t.label] ELSE Len(st.names)
            st1 == IF seen THEN [st EXCEPT !.f = f]
                   ELSE [st EXCEPT !.f = f,
                                   !.names = Append(@, t.label),
                                   !.lm = Put(@, t.label, label_id)]
        IN  IF t.filename \notin DOMAIN Files
            THEN [st1 EXCEPT !.outcome = "crashed"]
            ELSE ReadLines(st1, Files[t.filename], 1, t.label, label_id,
                           t.fixed_label, fixchr)

RECURSIVE LoadAll(_, _, _, _)
LoadAll(st, rnames, i, fixchr) ==
    IF i > Len(rnames) \/ st.outcome # "ok" THEN st
    ELSE LoadAll(LoadFile(st, rnames[i], fixchr), rnames, i + 1, fixchr)

\* ------------------------------------------------------------------ state

VARIABLES
    \* QuantifyRegionsImpl
    names,          \* label names, by label id (id i is names[i + 1])
    label_map,      \* label name -> label id, as the queries see it
    ib,             \* chromosome -> IntervalBuffer
    current_chr,    \* iterator into ib; IbEnd is ib.end()
    region_sizes,   \* label id -> accumulated size
    current_pos,    \* the watermark; -1 is unset
    \* the outcome of the last call
    status,         \* "ok", "fatal" (error() raised) or "crashed"
    regions,        \* annotate: the set of matching label names
    tag,            \* annotate: the record's Regions field after the call
    ret,            \* hasRegions / getRegionSize: the call and its result
    \* the inputs of this engine
    pool,
    \* history
    lastOp,         \* "init", "load" or "annotate"
    lastLoad,       \* arguments of the last load call
    rec,            \* the record of the last annotate call
    order,          \* the last record against the one annotated right
                    \* before it: "first", "other", "ahead" or "behind"
    added,          \* every addInterval call so far
    rows,           \* the lines stored by the last load call
    sorted,         \* the records so far came in sorted order
    visited,        \* chromosomes of the records so far
    nFiles          \* spec tokens given to load so far

vars == << names, label_map, ib, current_chr, region_sizes, current_pos,
           status, regions, tag, ret, pool, lastOp, lastLoad, rec, order,
           added, rows, sorted, visited, nFiles >>

IbEnd == << "<end>" >>
NullTag == << "<null>" >>
NoRet == [op |-> "none", name |-> << >>, bool |-> FALSE, size |-> 0]

\* ---------------------------------------------------------------- queries

\* (mutant: a label counts only once a size has been credited to it)
hasRegions_NonEmpty(rname) ==
    /\ rname \in DOMAIN label_map
    /\ label_map[rname] \in DOMAIN region_sizes

hasRegions(rname) == rname \in DOMAIN label_map

getRegionSize(region_name) ==
    IF region_name \notin DOMAIN label_map THEN 0
    ELSE IF label_map[region_name] \notin DOMAIN region_sizes THEN 0
    ELSE region_sizes[label_map[region_name]]

\* --------------------------------------------------------------- annotate

\* (mutant: the watermark one past the record's start)
WatermarkFor_Past(refstart) == refstart + 1

\* position the watermark is set to, and the index advanced to
WatermarkFor(refstart) == refstart - 1

\* ib.find(chr)
IbFind(chr) == IF chr \in DOMAIN ib THEN chr ELSE IbEnd

\* the names of a std::set<std::string>, in its order
RECURSIVE SortedNames(_)
SortedNames(S) ==
    IF S = {} THEN << >>
    ELSE LET least == CHOOSE x \in S : \A y \in S \ {x} : StrLess(x, y)
         IN  << least >> \o SortedNames(S \ {least})

\* the loop over the set: a comma goes before a name when tag_string is
\* not empty so far
RECURSIVE JoinFrom(_, _)
JoinFrom(tag_string, ns) ==
    IF Len(ns) = 0 THEN tag_string
    ELSE JoinFrom((IF Len(tag_string) # 0 THEN tag_string \o << "," >>
                   ELSE tag_string) \o ns[1],
                  Tail(ns))

JoinComma(ns) == JoinFrom(<< >>, ns)

\* (mutant: the field is always written, as an empty string when no label
\* matches)
Render_NoClear(S) == JoinComma(SortedNames(S))

\* the Regions field written for a set of matching names
Render(S) ==
    LET tag_string == JoinComma(SortedNames(S))
    IN  IF Len(tag_string) # 0 THEN tag_string ELSE NullTag

\* ------------------------------------------------------------------ inputs

A_f == << "A", ":", "f" >>
A_g == << "A", ":", "g" >>
EqA_g == << "=", "A", ":", "g" >>
CONF_g == << "C", "O", "N", "F", ":", "g" >>
CONFb == << "C", "O", "N", "F", ".", "b" >>
EqB_g == << "=", "B", ":", "g" >>
Eq_f == << "=", ":", "f" >>
Colon == << ":" >>
B_m == << "B", ":", "m" >>
C_h == << "C", ":", "h" >>
C_k == << "C", ":", "k" >>
C_x == << "C", ":", "x" >>
CONF_c == << "C", "O", "N", "F", ":", "c" >>
A_s == << "A", ":", "s" >>
D_n == << "D", ":", "n" >>
E_e == << "E", ":", "e" >>
Z_z == << "Z", ":", "z" >>

Rec(chr, start, end, old) ==
    [chr |-> chr, start |-> start, end |-> end, Regions |-> old]

NOPE == << "N", "O", "P", "E" >>
A_foo == << "A", "_", "f", "o", "o" >>

\* the engines checked: the spec tokens, fixchr values, records and query
\* names each is given
Pools ==
    { [tokens |-> {A_f, A_g, EqA_g}, fixchrs |-> {FALSE},
       recs |-> {Rec(chr1, 0, 9, NullTag), Rec(chr2, 1, 1, << "x" >>)},
       qnames |-> {<< "A" >>, A_foo, NOPE}],
      [tokens |-> {CONF_g, CONFb, EqB_g}, fixchrs |-> {FALSE},
       recs |-> {Rec(chr1, 0, 9, NullTag)},
       qnames |-> {CONF, CONF \o << "_" >> \o foo, << "B" >>}],
      [tokens |-> {Eq_f, Colon, A_f}, fixchrs |-> {FALSE},
       recs |-> {Rec(chr1, 0, 9, NullTag)},
       qnames |-> {<< >>, << "A" >>}],
      [tokens |-> {A_f, B_m}, fixchrs |-> {FALSE},
       recs |-> {Rec(chr1, 0, 9, NullTag)},
       qnames |-> {<< "A" >>, << "B" >>}],
      [tokens |-> {C_h, C_k, C_x}, fixchrs |-> {FALSE},
       recs |-> {Rec(chr1, 1, 1, NullTag), Rec(chr1, 4, 5, NullTag)},
       qnames |-> {<< "C" >>}],
      [tokens |-> {CONF_c}, fixchrs |-> {FALSE},
       recs |-> {Rec(chr1, s, s + l, NullTag) :
                    s \in {15, 25, 50, 100}, l \in 0..MaxLen}
                \cup {Rec(chrU, 7, 7, << "x" >>)},
       qnames |-> {CONF}],
      [tokens |-> {A_s}, fixchrs |-> {FALSE},
       recs |-> {Rec(c, s, s + l, NullTag) :
                    c \in {chr1, chr2}, s \in 0..MaxPos, l \in 0..MaxLen},
       qnames |-> {}],
      [tokens |-> {D_n}, fixchrs |-> BOOLEAN,
       recs |-> {Rec(chr1, 0, 2, NullTag), Rec(<< "1" >>, 0, 2, NullTag)},
       qnames |-> {<< "D" >>}],
      [tokens |-> {E_e, Z_z}, fixchrs |-> {FALSE},
       recs |-> {Rec(chr1, 4, 4, NullTag)},
       qnames |-> {<< "E" >>, << "Z" >>, NOPE}] }

\* the token lists a load call can be given
TokenLists(tokens) == UNION {[1..n -> tokens] : n \in 1..MaxFiles}

\* ----------------------------------------------------------------- actions

Init ==
    /\ names = << >>
    /\ label_map = EmptyMap
    /\ ib = EmptyMap
    /\ current_chr = IbEnd
    /\ region_sizes = EmptyMap
    /\ current_pos = -1
    /\ status = "ok"
    /\ regions = {}
    /\ tag = NullTag
    /\ ret = NoRet
    /\ pool \in Pools
    /\ lastOp = "init"
    /\ lastLoad = [rnames |-> << >>, fixchr |-> FALSE]
    /\ rec = Rec(<< >>, 0, 0, NullTag)
    /\ order = "first"
    /\ added = << >>
    /\ rows = << >>
    /\ sorted = TRUE
    /\ visited = {}
    /\ nFiles = 0

\* the engine after the body of load(rnames, fixchr), up to the point where
\* it returns, raises or the process ends
load(rnames, fixchr) ==
    LoadAll([names |-> names, lm |-> EmptyMap, ib |-> ib,
             region_sizes |-> region_sizes, added |-> added,
             rows |-> << >>, f |-> << >>, outcome |-> "ok"],
            rnames, 1, fixchr)

\* QuantifyRegions::load
Load(rnames, fixchr) ==
    /\ status # "crashed"
    /\ nFiles + Len(rnames) <= MaxFiles
    /\ LET r == load(rnames, fixchr)
       IN  /\ names' = r.names
           /\ ib' = r.ib
           /\ region_sizes' = r.region_sizes
           /\ label_map' = IF r.outcome = "ok" THEN r.lm ELSE label_map
           /\ status' = r.outcome
           /\ added' = r.added
           /\ rows' = r.rows
    /\ lastOp' = "load"
    /\ lastLoad' = [rnames |-> rnames, fixchr |-> fixchr]
    /\ nFiles' = nFiles + Len(rnames)
    /\ order' = "first"
    /\ ret' = NoRet
    /\ UNCHANGED << current_chr, current_pos, regions, tag, pool, rec,
                    sorted, visited >>

\* QuantifyRegions::annotate on record r.  current_chr is read and never
\* assigned, so it stays ib.end().
Annotate(r) ==
    /\ status # "crashed"
    /\ LET reset == current_chr = IbEnd \/ current_chr # r.chr
           pos == IF reset THEN -1 ELSE current_pos
           p_chr == IF reset THEN IbFind(r.chr) ELSE current_chr
           outOfOrder == p_chr # IbEnd /\ r.start < pos
           found == IF p_chr = IbEnd \/ outOfOrder THEN {}
                    ELSE {names[i + 1] : i \in
                            {j \in 0..(Len(names) - 1) :
                                hasOverlap(ib[p_chr], r.start, r.end, j)}}
           adv == p_chr # IbEnd /\ ~outOfOrder /\ r.start > 1
       IN  /\ current_pos' = IF adv THEN WatermarkFor(r.start) ELSE pos
           /\ ib' = IF adv
                    THEN [ib EXCEPT ![p_chr] = advance(@, WatermarkFor(r.start))]
                    ELSE ib
           /\ status' = IF outOfOrder THEN "fatal" ELSE "ok"
           /\ regions' = found
           /\ tag' = IF outOfOrder THEN r.Regions ELSE Render(found)
    /\ lastOp' = "annotate"
    /\ rec' = r
    /\ order' = IF lastOp # "annotate" THEN "first"
                ELSE IF rec.chr # r.chr THEN "other"
                ELSE IF r.start < rec.start - 1 THEN "behind"
                ELSE "ahead"
    /\ sorted' = (sorted /\ IF visited # {} /\ r.chr = rec.chr
                            THEN r.start >= rec.start
                            ELSE r.chr \notin visited)
    /\ visited' = visited \cup {r.chr}
    /\ ret' = NoRet
    /\ UNCHANGED << names, label_map, current_chr, region_sizes, pool,
                    lastLoad, added, rows, nFiles >>

\* QuantifyRegions::hasRegions
HasRegions(rname) ==
    /\ status # "crashed"
    /\ ret' = [op |-> "hasRegions", name |-> rname,
               bool |-> hasRegions(rname), size |-> 0]
    /\ UNCHANGED << names, label_map, ib, current_chr, region_sizes,
                    current_pos, status, regions, tag, pool, lastOp, lastLoad,
                    rec, order, added, rows, sorted, visited, nFiles >>

\* (mutant: the lookup goes through operator[], which enters an unknown name
\* with id 0)
GetRegionSize_Inserting(region_name) ==
    /\ status # "crashed"
    /\ label_map' = IF region_name \in DOMAIN label_map THEN label_map
                    ELSE Put(label_map, region_name, 0)
    /\ ret' = [op |-> "getRegionSize", name |-> region_name, bool |-> FALSE,
               size |-> IF label_map'[region_name] \in DOMAIN region_sizes
                        THEN region_sizes[label_map'[region_name]] ELSE 0]
    /\ UNCHANGED << names, ib, current_chr, region_sizes,
                    current_pos, status, regions, tag, pool, lastOp, lastLoad,
                    rec, order, added, rows, sorted, visited, nFiles >>

\* QuantifyRegions::getRegionSize
GetRegionSize(region_name) ==
    /\ status # "crashed"
    /\ ret' = [op |-> "getRegionSize", name |-> region_name,
               bool |-> FALSE, size |-> getRegionSize(region_name)]
    /\ UNCHANGED << names, label_map, ib, current_chr, region_sizes,
                    current_pos, status, regions, tag, pool, lastOp, lastLoad,
                    rec, order, added, rows, sorted, visited, nFiles >>

Next ==
    \/ \E rnames \in TokenLists(pool.tokens), fixchr \in pool.fixchrs :
            Load(rnames, fixchr)
    \/ \E r \in pool.recs : Annotate(r)
    \/ \E rname \in pool.qnames : HasRegions(rname)
    \/ \E region_name \in pool.qnames : GetRegionSize(region_name)

Spec == Init /\ [][Next]_vars

\* ------------------------------------------------------------- properties

Range(q) == {q[i] : i \in 1..Len(q)}

\* the labels with a loaded interval on r's chromosome overlapping r's span,
\* whatever has been retired since
Overlapping(r) ==
    {names[a.lane + 1] : a \in
        {b \in Range(added) :
            b.chr = r.chr /\ b.start <= r.end /\ b.stop >= r.start}}

RECURSIVE SumLen(_)
SumLen(q) ==
    IF Len(q) = 0 THEN 0
    ELSE (q[1].stop - q[1].start + 1) + SumLen(Tail(q))

\* the last annotate call was on a chromosome with an index, right after an
\* annotate call on the same chromosome, and went back behind the watermark
\* that call left
WentBack ==
    /\ lastOp = "annotate"
    /\ order = "behind"
    /\ rec.chr \in DOMAIN ib

\* C1: a record behind the watermark left by the record before it, on the
\* same indexed chromosome, makes annotate raise the fatal ordering error.
C1_OutOfOrderIsFatal == WentBack => status = "fatal"

\* C2: every annotate call either raises the ordering error or attaches
\* exactly the labels with a loaded interval overlapping the record; no label
\* is missing because an earlier advance retired its interval.
C2_FatalOrExact ==
    lastOp = "annotate" => (status = "fatal" \/ regions = Overlapping(rec))

\* C3: on a sorted stream every annotate call returns and attaches exactly
\* the labels with a loaded closed interval [start, end - 1] overlapping the
\* record, as if nothing had been retired; with CONF chr1:[10,20) and
\* chr1:[30,40) a record at 15 is tagged CONF and one at 25 is not.
C3_SortedExact ==
    (lastOp = "annotate" /\ sorted) =>
        /\ status = "ok"
        /\ regions = Overlapping(rec)
        /\ tag = Render(Overlapping(rec))
        /\ (pool.tokens = {CONF_c} /\ Len(added) > 0 /\ rec.chr = chr1) =>
              /\ rec.start = 15 => tag = CONF
              /\ rec.start = 25 => tag = NullTag
              /\ (CONF \in regions) <=>
                    \/ rec.start <= 19 /\ rec.end >= 10
                    \/ rec.start <= 39 /\ rec.end >= 30

\* C3 witness: a sorted stream, a second record on the chromosome of the
\* first, after an advance that retired an interval, and it gets a label
C3_Witness ==
    /\ lastOp = "annotate" /\ sorted
    /\ order = "ahead"
    /\ rec.chr \in DOMAIN ib
    /\ \E a \in Range(added) :
          a.chr = rec.chr
          /\ [start |-> a.start, stop |-> a.stop, lane |-> a.lane]
                \notin ib[rec.chr]
    /\ regions # {}

\* C4: the size of every loaded label is the sum of stop - start + 1 over
\* the intervals inserted under its id.
C4_SizeIsSum ==
    \A label \in DOMAIN label_map :
        getRegionSize(label) =
            SumLen(SelectSeq(added, LAMBDA a : a.lane = label_map[label]))

\* C4 witness: a label with a compound label, sizes 12 and 10
C4_Witness ==
    /\ lastOp = "load" /\ status = "ok"
    /\ A_foo \in DOMAIN label_map
    /\ getRegionSize(<< "A" >>) = 12
    /\ getRegionSize(A_foo) = 10

\* C5: loading a file a second time under the same label doubles the size
\* of the label.
C5_TwiceDoubles ==
    [][ ( /\ nFiles = 1 /\ Len(lastLoad.rnames) = 1
          /\ label_map # EmptyMap
          /\ lastOp' = "load" /\ status' = "ok" /\ nFiles' = 2
          /\ lastLoad' = lastLoad )
        => \A label \in DOMAIN label_map :
              getRegionSize(label)' = 2 * getRegionSize(label) ]_vars

\* the same file twice in one token list: the sizes are twice those of the
\* list that names it once
SameCallDoubles ==
    (lastOp = "load" /\ status = "ok" /\ nFiles = 2
     /\ Len(lastLoad.rnames) = 2 /\ lastLoad.rnames[1] = lastLoad.rnames[2])
    => LET once == LoadAll([names |-> << >>, lm |-> EmptyMap, ib |-> EmptyMap,
                            region_sizes |-> EmptyMap, added |-> << >>,
                            rows |-> << >>, f |-> << >>, outcome |-> "ok"],
                           << lastLoad.rnames[1] >>, 1, lastLoad.fixchr)
       IN  /\ DOMAIN label_map = DOMAIN once.lm
           /\ \A label \in DOMAIN label_map :
                 getRegionSize(label) = 2 * once.region_sizes[once.lm[label]]

\* a stored line gets a compound label / its compound label / its size
IsSplit(r) == ~r.fixed_label /\ Len(r.v) > 3
Compound(r) == r.label \o << "_" >> \o r.v[4]
StoredUnder(r, id) ==
    [chr |-> r.chr, start |-> r.start, stop |-> r.stop, lane |-> id]
        \in Range(added)

\* C6: a line with a 4th column of a file that is not fixed-label is stored
\* and credited under the compound label and under the file's label, any
\* other line under the file's label only; A:f with the line chr1 0 10 foo
\* gives A and A_foo, both of size 10 and both overlapping [0,9].
C6_CompoundAndBase ==
    (lastOp = "load" /\ status = "ok") =>
        /\ \A r \in Range(rows) :
              /\ r.label \in DOMAIN label_map
              /\ StoredUnder(r, label_map[r.label])
              /\ IsSplit(r) =>
                    /\ Compound(r) \in DOMAIN label_map
                    /\ label_map[Compound(r)] # label_map[r.label]
                    /\ StoredUnder(r, label_map[Compound(r)])
        /\ \A label \in DOMAIN label_map :
              getRegionSize(label) =
                  SumLen(SelectSeq(rows, LAMBDA r : r.label = label))
                  + SumLen(SelectSeq(rows,
                        LAMBDA r : IsSplit(r) /\ Compound(r) = label))
        /\ Len(SelectSeq(added,
                LAMBDA a : \E label \in DOMAIN label_map :
                                a.lane = label_map[label]))
              = Len(rows) + Len(SelectSeq(rows, IsSplit))
        /\ (lastLoad.rnames = << A_f >> /\ nFiles = 1) =>
              /\ names = << << "A" >>, A_foo >>
              /\ getRegionSize(<< "A" >>) = 10
              /\ getRegionSize(A_foo) = 10
              /\ hasOverlap(ib[chr1], 0, 9, label_map[<< "A" >>])
              /\ hasOverlap(ib[chr1], 0, 9, label_map[A_foo])

\* C6 witness: a load that stored a line with a 4th column and one without
C6_Witness ==
    /\ lastOp = "load" /\ status = "ok"
    /\ \E r \in Range(rows) : IsSplit(r)
    /\ \E r \in Range(rows) : ~IsSplit(r) /\ ~r.fixed_label

\* C7: a file whose label is CONF, however the token gave it, or whose
\* token label carries the = marker, is never split: its lines are stored
\* under the file's label only.
C7_FixedNeverSplit ==
    (lastOp = "load" /\ status = "ok") =>
        \A r \in Range(rows) :
            (r.label = CONF \/ r.f[1] = "=") =>
                r.this_label_id = r.label_id

\* C8: a token that yields an empty label ends load in a fatal error, and
\* no label with the empty name is registered.
C8_EmptyLabelIsFatal ==
    (lastOp = "load"
     /\ \E i \in 1..Len(lastLoad.rnames) :
            LET t == ParseToken(lastLoad.rnames[i])
            IN  ~t.ok \/ t.label = << >>)
    => /\ status = "fatal"
       /\ ~hasRegions(<< >>)
       /\ << >> \notin Range(names)

\* C9: a token whose file cannot be opened ends load in a fatal load
\* failure and leaves no label of the call loaded: hasRegions is false and
\* getRegionSize is 0 for each, and no interval is kept under them.
C9_UnopenableAbortsAll ==
    (lastOp = "load"
     /\ \E i \in 1..Len(lastLoad.rnames) :
            LET t == ParseToken(lastLoad.rnames[i])
            IN  t.ok /\ t.filename \notin DOMAIN Files)
    => /\ status = "fatal"
       /\ \A i \in 1..Len(lastLoad.rnames) :
             LET t == ParseToken(lastLoad.rnames[i])
             IN  t.ok =>
                    /\ ~hasRegions(t.label)
                    /\ getRegionSize(t.label) = 0
                    /\ \A c \in DOMAIN ib : \A iv \in ib[c] :
                          names[iv.lane + 1] # t.label

\* a field that is a decimal number
AllDigits(s) == Len(s) > 0 /\ \A i \in 1..Len(s) : s[i] \in Digits

\* a line with fewer than 3 fields, a coordinate that is no number, or
\* start > end - 1
Unusable(line) ==
    LET v == split(line, TAB)
    IN  \/ Len(v) < 3
        \/ ~AllDigits(v[2])
        \/ ~AllDigits(v[3])
        \/ DecVal(v[2]) > DecVal(v[3]) - 1

\* the lines of the files of a token list, in order
RECURSIVE LinesOf(_)
LinesOf(rnames) ==
    IF Len(rnames) = 0 THEN << >>
    ELSE Files[ParseToken(rnames[1]).filename] \o LinesOf(Tail(rnames))

\* C10: a line with fewer than 3 fields, with non-numeric coordinates or
\* with start > end - 1 is skipped and nothing else: the lines stored are
\* exactly the other lines of the files, and start <= stop for each interval.
C10_OnlyBadLinesSkipped ==
    (lastOp = "load" /\ status = "ok") =>
        /\ LET good == SelectSeq(LinesOf(lastLoad.rnames),
                                 LAMBDA l : ~Unusable(l))
           IN  /\ Len(rows) = Len(good)
               /\ \A i \in 1..Len(rows) : rows[i].v = split(good[i], TAB)
        /\ \A a \in Range(added) : a.start <= a.stop

\* C11: with fixchr a line is stored under "chr" + its chromosome token
\* exactly when the token starts with 1-9, X, Y or M, and under the token
\* itself otherwise, so a line on "1" matches records on "chr1"; without
\* fixchr every token is stored as it is and that line does not match them.
C11_FixChr ==
    /\ (lastOp = "load" /\ status = "ok") =>
          \A r \in Range(rows) :
              /\ r.chr = IF lastLoad.fixchr
                            /\ r.v[1][1] \in {"1", "2", "3", "4", "5", "6",
                                              "7", "8", "9", "X", "Y", "M"}
                         THEN << "c", "h", "r" >> \o r.v[1]
                         ELSE r.v[1]
              /\ r.chr \in DOMAIN ib
              /\ StoredUnder(r, r.this_label_id)
    /\ (lastOp = "annotate" /\ pool.tokens = {D_n} /\ nFiles = 1
        /\ label_map # EmptyMap) =>
          /\ rec.chr = chr1 => ((<< "D" >> \in regions) <=> lastLoad.fixchr)
          /\ rec.chr = << "1" >> =>
                ((<< "D" >> \in regions) <=> ~lastLoad.fixchr)

\* C11 witness: a record on chr1 labelled by the line on chromosome "1"
C11_Witness ==
    /\ lastOp = "annotate" /\ pool.tokens = {D_n} /\ nFiles = 1
    /\ lastLoad.fixchr
    /\ rec.chr = chr1
    /\ << "D" >> \in regions

\* C12: a getRegionSize or hasRegions call changes no label, size, interval
\* index or cursor of the engine, and getRegionSize answers 0 for a name that
\* is not a loaded label.
C12_QueriesArePure ==
    [][ret'.op # "none" =>
          /\ UNCHANGED << names, label_map, ib, current_chr, region_sizes,
                          current_pos >>
          /\ (ret'.op = "getRegionSize" /\ ret'.name \notin DOMAIN label_map)
                => ret'.size = 0]_vars

\* C12 witness: getRegionSize("NOPE") answered on an engine with loaded sizes
C12_Witness ==
    /\ ret.op = "getRegionSize"
    /\ ret.name = NOPE
    /\ ret.size = 0
    /\ DOMAIN region_sizes # {}
    /\ label_map # EmptyMap

\* the names of a comma separated Regions value
TagNames(t) == IF t = NullTag THEN << >> ELSE split(t, ",")

\* C13: after an annotate call that returns, Regions holds the matching label
\* names, each once, in ascending order and joined by commas, and is cleared
\* when no label matches, whatever value the record carried before.
C13_SortedUniqueJoined ==
    (lastOp = "annotate" /\ status = "ok") =>
        /\ regions = {} <=> tag = NullTag
        /\ Range(TagNames(tag)) = regions
        /\ Len(TagNames(tag)) = Cardinality(regions)
        /\ \A i, j \in 1..Len(TagNames(tag)) :
              i < j => StrLess(TagNames(tag)[i], TagNames(tag)[j])

\* the same for calls in which no matching label has the empty name
C13_NamedLabels ==
    (lastOp = "annotate" /\ status = "ok" /\ << >> \notin regions) =>
        /\ regions = {} <=> tag = NullTag
        /\ Range(TagNames(tag)) = regions
        /\ Len(TagNames(tag)) = Cardinality(regions)
        /\ \A i, j \in 1..Len(TagNames(tag)) :
              i < j => StrLess(TagNames(tag)[i], TagNames(tag)[j])

\* two matching labels whose id order is not their name order
C13_NamedWitness ==
    /\ lastOp = "annotate" /\ status = "ok"
    /\ Cardinality(regions) = 2
    /\ regions \subseteq DOMAIN label_map
    /\ \E a, b \in regions :
          /\ StrLess(a, b)
          /\ label_map[a] > label_map[b]

\* the labels under which the last load call stored an interval
LabelsWithRows ==
    {names[r.this_label_id + 1] : r \in Range(rows)}
        \cup {names[r.label_id + 1] : r \in Range(rows)}

FreshEngine ==
    [names |-> << >>, lm |-> EmptyMap, ib |-> EmptyMap,
     region_sizes |-> EmptyMap, added |-> << >>, rows |-> << >>,
     f |-> << >>, outcome |-> "ok"]

Perms(n) == {p \in [1..n -> 1..n] : \A i, j \in 1..n : i # j => p[i] # p[j]}

Permuted(rnames, p) == [i \in 1..Len(rnames) |-> rnames[p[i]]]

\* getRegionSize on an engine e that load returned
EngineSize(e, name) ==
    IF name \notin DOMAIN e.lm THEN 0
    ELSE IF e.lm[name] \notin DOMAIN e.region_sizes THEN 0
    ELSE e.region_sizes[e.lm[name]]

\* the Regions value of record r by the intervals and names of engine e
EngineRegions(e, r) ==
    Render(IF r.chr \notin DOMAIN e.ib THEN {}
           ELSE {e.names[j + 1] : j \in
                    {k \in 0..(Len(e.names) - 1) :
                        hasOverlap(e.ib[r.chr], r.start, r.end, k)}})

\* the engine has completed one load call, on a new engine
OneLoad == nFiles = Len(lastLoad.rnames) /\ label_map # EmptyMap

\* C15: the order of the tokens of a load call is not observable: an engine
\* loaded with any permutation of the list has the same labels, the same
\* getRegionSize for each, and gives every record of a sorted stream the
\* same Regions value, although the label ids may differ.
C15_TokenOrderUnobservable ==
    OneLoad =>
        \A p \in Perms(Len(lastLoad.rnames)) :
            LET e == LoadAll(FreshEngine, Permuted(lastLoad.rnames, p), 1,
                             lastLoad.fixchr)
            IN  /\ e.outcome = "ok"
                /\ DOMAIN e.lm = DOMAIN label_map
                /\ \A name \in DOMAIN label_map \cup pool.qnames :
                      EngineSize(e, name) = getRegionSize(name)
                /\ (lastOp = "annotate" /\ sorted /\ status = "ok")
                      => tag = EngineRegions(e, rec)

\* C15 witness: a record labelled after a load of two tokens whose other
\* order gives the labels other ids
C15_Witness ==
    /\ OneLoad
    /\ Len(lastLoad.rnames) = 2
    /\ lastOp = "annotate" /\ sorted /\ status = "ok"
    /\ Cardinality(regions) = 2
    /\ LET e == LoadAll(FreshEngine, << lastLoad.rnames[2], lastLoad.rnames[1] >>,
                        1, lastLoad.fixchr)
       IN  /\ e.names # names
           /\ tag = EngineRegions(e, rec)

\* C16: over two consecutive annotate calls on records of the same chromosome
\* the watermark does not decrease: the second call leaves it as it is or
\* sets it to the start of its record minus one.
C16_WatermarkMonotone ==
    [][(lastOp = "annotate" /\ lastOp' = "annotate" /\ ret' = NoRet
        /\ status = "ok" /\ status' = "ok"
        /\ rec'.chr = rec.chr)
          => /\ current_pos' >= current_pos
             /\ current_pos' \in {current_pos, rec'.start - 1}]_vars

\* C17: after any sequence of load calls the label ids are 0..n-1 in the
\* order the labels were first seen, the names list holds no name twice, and
\* the id the label map gives a name never changes once it is assigned.
C17_IdsDenseUniqueStable ==
    [][/\ \A i, j \in 1..Len(names') : names'[i] = names'[j] => i = j
       /\ \A l \in DOMAIN label_map' :
             /\ label_map'[l] \in 0..(Len(names') - 1)
             /\ names'[label_map'[l] + 1] = l
       /\ \A l \in DOMAIN label_map :
             l \in DOMAIN label_map' /\ label_map'[l] = label_map[l]
       /\ \A i \in 1..Len(names) :
             Len(names') >= i /\ names'[i] = names[i]]_vars

\* within one load call on a new engine the ids are as C17 says
C17_WithinOneCall ==
    OneLoad =>
        /\ \A i, j \in 1..Len(names) : names[i] = names[j] => i = j
        /\ DOMAIN label_map = Range(names)
        /\ \A l \in DOMAIN label_map : names[label_map[l] + 1] = l

\* the names a size or a registration can be asked for
AskedNames == DOMAIN label_map \cup Range(names) \cup pool.qnames

\* C18: over any sequence of calls getRegionSize of a label never decreases,
\* and an annotate call leaves getRegionSize and hasRegions of every label as
\* they were.
C18_SizesOnlyGrow ==
    [][/\ \A name \in AskedNames : getRegionSize(name)' >= getRegionSize(name)
       /\ (lastOp' = "annotate" /\ ret' = NoRet /\ nFiles' = nFiles) =>
             \A name \in AskedNames :
                 /\ getRegionSize(name)' = getRegionSize(name)
                 /\ hasRegions(name)' = hasRegions(name)]_vars

\* the part of C18 about annotate
C18_AnnotateKeepsSizes ==
    [][(lastOp' = "annotate" /\ ret' = NoRet /\ nFiles' = nFiles) =>
             \A name \in AskedNames :
                 /\ getRegionSize(name)' = getRegionSize(name)
                 /\ hasRegions(name)' = hasRegions(name)]_vars

\* C19: an annotate call on a record whose chromosome has no interval index
\* attaches no label, clears Regions, raises no error wherever the record
\* lies relative to the ones before, leaves the watermark unset and advances
\* the index of no chromosome.
C19_UnindexedChromosome ==
    [][(lastOp' = "annotate" /\ ret' = NoRet /\ nFiles' = nFiles
        /\ rec'.chr \notin DOMAIN ib)
          => /\ regions' = {}
             /\ tag' = NullTag
             /\ status' = "ok"
             /\ current_pos' = -1
             /\ ib' = ib]_vars

\* C19 witness: a record with a stale Regions value on a chromosome without
\* an index, annotated after a record of an indexed chromosome
C19_Witness ==
    /\ lastOp = "annotate" /\ status = "ok"
    /\ rec.chr \notin DOMAIN ib
    /\ rec.Regions = << "x" >>
    /\ order = "other"
    /\ \E c \in visited : c \in DOMAIN ib /\ ib[c] # {}
    /\ tag = NullTag
    /\ current_pos = -1

\* C20: in every state reached by load calls, completed or ended by the
\* fatal error, and annotate calls, names and label_map are inverse to each
\* other, so every label written into Regions satisfies hasRegions.
C20_NamesMatchLabelMap ==
    status # "crashed" =>
        /\ \A i \in 1..Len(names) :
              names[i] \in DOMAIN label_map /\ label_map[names[i]] = i - 1
        /\ \A l \in DOMAIN label_map :
              /\ label_map[l] \in 0..(Len(names) - 1)
              /\ names[label_map[l] + 1] = l
        /\ (lastOp = "annotate" /\ status = "ok") =>
              \A l \in regions : hasRegions(l)

\* the part of C20 that holds: every key of label_map is the name at its id
C20_LabelMapInNames ==
    \A l \in DOMAIN label_map :
        /\ label_map[l] \in 0..(Len(names) - 1)
        /\ names[label_map[l] + 1] = l

\* a record labelled with a name hasRegions denies, after a load call that
\* ended in the fatal error
C20_UnknownLabelWritten ==
    /\ lastOp = "annotate" /\ status = "ok"
    /\ lastLoad.rnames = << A_f, Colon >>
    /\ nFiles = 2
    /\ << "A" >> \in regions
    /\ ~hasRegions(<< "A" >>)

====
